---- MODULE Spec2Model ----
(***************************************************************************)
(* Model of the serial temperature monitor (Reciever.py, sender.py).       *)
(*                                                                         *)
(* The specifications share the definitions below:                         *)
(*   SpecValidator  one call of check_port_for_data on one endpoint        *)
(*   SpecScan       find_correct_port over the candidate list              *)
(*   Spec           the program after discovery: CSV setup, the animation  *)
(*                  ticks (update_graph), apply_settings, toggle_smooth,   *)
(*                  toggle_theme and on_closing, with a sender that emits  *)
(*                  any lines                                              *)
(*   SpecE2E        the same with a sender that emits three fixed lines    *)
(*   SpecView       the same from the end of a read loop that accepted a   *)
(*                  burst of samples, the sender being silent afterwards   *)
(*   SpecSettings   the GUI with a silent sender and a user who types any  *)
(*                  of a larger set of texts into the settings form        *)
(*   SpecStream     the ticks with a sender that emits a fixed stream of   *)
(*                  lines at arbitrary moments; SpecStreamFair adds the    *)
(*                  scheduling of the timer                                *)
(*                                                                         *)
(* Bytes and characters are one-character strings; a serial line is the    *)
(* sequence of its bytes.  Temperatures are integers in hundredths         *)
(* (the sender writes them with two decimals).                             *)
(***************************************************************************)
EXTENDS Integers, Sequences, FiniteSets, TLC

VARIABLES
    \* ---- discovery (find_correct_port / check_port_for_data) ----
    system_ports,      \* names returned by comports()
    final_list,        \* de-duplicated candidate list
    idx,               \* position of the for-loop in final_list
    spc,               \* position in find_correct_port
    port_name,         \* argument of the running check_port_for_data
    ser,               \* its local handle (None before the open)
    vpc,               \* position in check_port_for_data
    attempt,           \* iterations of the read loop done
    valid_floats,      \* counter of lines that parsed
    ret,               \* value returned by check_port_for_data
    openHandles,       \* endpoints this process holds open
    serial_connection, \* the module-level connection
    checked,           \* history: names handed to check_port_for_data
    v_reads,           \* history: texts read by the running validation
    v_err,             \* history: the running validation caught an exception
    \* ---- ingestion, logging, rendering ----
    mpc,               \* position of the main program
    upc,               \* position inside update_graph
    inbuf,             \* lines waiting in the connection's input buffer
    sent,              \* number of lines the sender has emitted
    full_history_x,
    full_history_y,
    csv_disk,          \* rows of the CSV file that reached storage
    csv_buf,           \* rows written but not yet flushed
    csv_open,          \* the CSV file object is open
    lbl_current_temp,  \* text of the temperature label
    line_data,         \* data of the plotted line
    current_window_width,
    current_y_min,
    current_y_max,
    is_smooth_enabled,
    is_dark_mode,
    clock,             \* wall clock
    closings,          \* number of on_closing invocations
    tick_buf0,         \* history: inbuf when the running tick started
    tick_read,         \* history: lines read by the running tick
    tick_err,          \* history: exception that ended the running tick's read
    log_failed         \* history: a CSV write or flush has failed

scanVars == <<system_ports, final_list, idx, spc, port_name, ser, vpc, attempt,
              valid_floats, ret, checked, v_reads, v_err>>
connVars == <<openHandles, serial_connection>>
runVars  == <<mpc, upc, inbuf, sent, full_history_x, full_history_y, csv_disk,
              csv_buf, csv_open, lbl_current_temp, line_data,
              current_window_width, current_y_min, current_y_max,
              is_smooth_enabled, is_dark_mode, clock, closings, tick_buf0, tick_read,
              tick_err, log_failed>>
vars == <<scanVars, connVars, runVars>>

None == "None"

(***************************************************************************)
(* Bounds                                                                  *)
(***************************************************************************)
MaxSys      == 2   \* length of the list comports() returns
MaxSent     == 2   \* lines the sender emits in a run
MaxHist     == 4   \* samples in the history when rendering is examined
MaxClock    == 1   \* clock readings after the start
MaxClosings == 2   \* invocations of on_closing

(***************************************************************************)
(* Program constants                                                       *)
(***************************************************************************)
MAX_COM_PORT_CHECK == 32
attempts           == 4
SmoothPoints       == 300

(***************************************************************************)
(* Text: bytes.decode, str.strip, float(), int(), format                   *)
(***************************************************************************)
BadByte    == "xFF"   \* a byte that is not valid UTF-8
Whitespace == {" ", "\t", "\n", "\r"}
DigitChars == {"0", "1", "2", "3", "4", "5", "6", "7", "8", "9"}

DigitVal(c) ==
    CASE c = "0" -> 0 [] c = "1" -> 1 [] c = "2" -> 2 [] c = "3" -> 3
      [] c = "4" -> 4 [] c = "5" -> 5 [] c = "6" -> 6 [] c = "7" -> 7
      [] c = "8" -> 8 [] c = "9" -> 9

DigitChar(d) ==
    CASE d = 0 -> "0" [] d = 1 -> "1" [] d = 2 -> "2" [] d = 3 -> "3"
      [] d = 4 -> "4" [] d = 5 -> "5" [] d = 6 -> "6" [] d = 7 -> "7"
      [] d = 8 -> "8" [] d = 9 -> "9"

IsBad(c)  == c = BadByte
NotBad(c) == c # BadByte

\* bytes.decode('utf-8') raises UnicodeDecodeError (a ValueError) on a bad byte
DecodeStrictRaises(raw) == \E i \in 1..Len(raw) : IsBad(raw[i])

\* bytes.decode('utf-8', errors='ignore') drops the bad bytes
DecodeIgnore(raw) == SelectSeq(raw, NotBad)

RECURSIVE LStrip(_)
LStrip(s) ==
    IF s # <<>> /\ Head(s) \in Whitespace THEN LStrip(Tail(s)) ELSE s

RECURSIVE RStrip(_)
RStrip(s) ==
    IF s # <<>> /\ s[Len(s)] \in Whitespace
    THEN RStrip(SubSeq(s, 1, Len(s) - 1)) ELSE s

Strip(s) == RStrip(LStrip(s))

AllDigits(s) == \A i \in 1..Len(s) : s[i] \in DigitChars

RECURSIVE DigitsVal(_)
DigitsVal(s) ==
    IF s = <<>> THEN 0
    ELSE 10 * DigitsVal(SubSeq(s, 1, Len(s) - 1)) + DigitVal(s[Len(s)])

Unsigned(s) == IF s # <<>> /\ Head(s) \in {"+", "-"} THEN Tail(s) ELSE s

DotPos(s) ==
    IF \E i \in 1..Len(s) : s[i] = "."
    THEN CHOOSE i \in 1..Len(s) : s[i] = "." /\ \A j \in 1..(i - 1) : s[j] # "."
    ELSE Len(s) + 1

IntPart(s)  == SubSeq(s, 1, DotPos(s) - 1)
FracPart(s) == SubSeq(s, DotPos(s) + 1, Len(s))

\* float(text) succeeds: [sign] digits [. digits] with at least one digit
\* (the decimal forms; exponents, inf and nan do not occur in the inputs)
IsFloat(text) ==
    LET t == Unsigned(Strip(text))
    IN  /\ AllDigits(IntPart(t))
        /\ AllDigits(FracPart(t))
        /\ Len(IntPart(t)) + Len(FracPart(t)) > 0

\* float(text), in hundredths
FloatVal(text) ==
    LET t   == Unsigned(Strip(text))
        f   == FracPart(t) \o <<"0", "0">>
        mag == 100 * DigitsVal(IntPart(t)) + DigitsVal(SubSeq(f, 1, 2))
    IN  IF Strip(text) # <<>> /\ Head(Strip(text)) = "-" THEN 0 - mag ELSE mag

\* float(text) also accepts the text nan, with an optional sign
IsNanText(text) == Unsigned(Strip(text)) = <<"n", "a", "n">>

\* the value of a settings entry: a number of hundredths, or nan
Num(v) == [nan |-> FALSE, val |-> v]
NaN    == [nan |-> TRUE, val |-> 0]
ParseFloat(text) == IF IsNanText(text) THEN NaN ELSE Num(FloatVal(text))

\* a >= b and a < b on floats: every comparison with nan is false
FloatGe(a, b) == ~a.nan /\ ~b.nan /\ a.val >= b.val
FloatLt(a, b) == ~a.nan /\ ~b.nan /\ a.val < b.val

\* int(text) succeeds: [sign] digits
IsInt(text) ==
    LET t == Unsigned(Strip(text)) IN t # <<>> /\ AllDigits(t)

IntVal(text) ==
    LET t == Unsigned(Strip(text))
    IN  IF Head(Strip(text)) = "-" THEN 0 - DigitsVal(t) ELSE DigitsVal(t)

RECURSIVE NatChars(_)
NatChars(n) ==
    IF n < 10 THEN <<DigitChar(n)>>
    ELSE NatChars(n \div 10) \o <<DigitChar(n % 10)>>

\* f"{val:.2f}" for a value in hundredths
Format2f(v) ==
    LET m == IF v < 0 THEN 0 - v ELSE v
    IN  (IF v < 0 THEN <<"-">> ELSE <<>>)
        \o NatChars(m \div 100) \o <<".">>
        \o <<DigitChar((m % 100) \div 10), DigitChar(m % 10)>>

\* f"T: {val:.2f} °C"
LabelText(v) == <<"T", ":", " ">> \o Format2f(v) \o <<" ", "°", "C">>

InitialLabel == <<"T", ":", " ", "-", "-", ".", "-", "-", " ", "°", "C">>

(***************************************************************************)
(* Lines used as inputs                                                    *)
(***************************************************************************)
L_23_40   == <<"2", "3", ".", "4", "0", "\n">>
L_23_55   == <<"2", "3", ".", "5", "5", "\n">>
L_nan     == <<"n", "o", "t", "-", "a", "-", "n", "u", "m", "b", "e", "r", "\n">>
L_blank   == <<"\n">>
L_bad     == <<"2", "3", ".", "4", BadByte, "0", "\n">>
L_21_5    == <<"2", "1", ".", "5", "\n">>
L_22_1    == <<"2", "2", ".", "1", "\n">>
L_garbage == <<"g", "a", "r", "b", "a", "g", "e", "\n">>
L_badword == <<"b", "a", "d", "\n">>
L_x       == <<"x", "\n">>
L_y       == <<"y", "\n">>
L_z       == <<"z", "\n">>
L_w       == <<"w", "\n">>
NoBytes   == <<>>   \* readline() timed out

\* what the sender and line noise put on the wire during ingestion
WireLines  == {L_23_40, L_23_55, L_nan, L_blank, L_bad}
\* what an endpoint answers while it is probed alone
ProbeLines == {L_21_5, L_22_1, L_garbage, L_badword, L_x, L_y, L_z, L_w,
               L_bad, NoBytes}
\* what endpoints answer during a scan of the whole candidate list
ScanLines  == {L_23_40, L_nan, NoBytes}

(***************************************************************************)
(* Endpoint Enumerator: find_correct_port, candidate list                  *)
(***************************************************************************)
HostNames == {"COM3", "COM5", "COM40"}

RECURSIVE SeqsUpTo(_, _)
SeqsUpTo(S, n) ==
    IF n = 0 THEN {<<>>}
    ELSE LET shorter == SeqsUpTo(S, n - 1)
         IN  shorter \cup {Append(s, x) : s \in {t \in shorter : Len(t) = n - 1}, x \in S}

HostLists == SeqsUpTo(HostNames, MaxSys)

InSeq(x, s) == \E i \in 1..Len(s) : s[i] = x

ComName(i) == "COM" \o ToString(i)

\* lines 184-189: the host names, then COM1..COM<M> where not yet present
RECURSIVE Extend(_, _, _)
Extend(cands, i, M) ==
    IF i > M THEN cands
    ELSE Extend(IF InSeq(ComName(i), cands) THEN cands
                ELSE Append(cands, ComName(i)), i + 1, M)

Candidates(sp, M) == Extend(sp, 1, M)

\* lines 191-196: keep the first occurrence of every name
RECURSIVE DedupFrom(_, _)
DedupFrom(cands, out) ==
    IF cands = <<>> THEN out
    ELSE DedupFrom(Tail(cands),
                   IF InSeq(Head(cands), out) THEN out
                   ELSE Append(out, Head(cands)))

\* mutation: the list is used as built, repeated names included
Dedup_Keep(cands) == cands

Dedup(cands) == DedupFrom(cands, <<>>)

FinalList(sp, M) == Dedup(Candidates(sp, M))

(***************************************************************************)
(* Endpoint Validator: check_port_for_data, one step per serial call       *)
(***************************************************************************)
valUnchangedRun == UNCHANGED <<runVars, serial_connection>>

\* line 131: serial.Serial(port_name, BAUD_RATE, timeout=1.5)
OpenEndpoint ==
    /\ vpc = "open"
    /\ \/ /\ ser' = port_name
          /\ openHandles' = openHandles \cup {port_name}
          /\ vpc' = "settle"
          /\ UNCHANGED <<ret, v_err>>
       \/ \* SerialException (busy, nonexistent): lines 162-167, ser is None
          /\ vpc' = "returned"
          /\ ret' = None
          /\ v_err' = TRUE
          /\ UNCHANGED <<ser, openHandles>>
    /\ UNCHANGED <<system_ports, final_list, idx, spc, port_name, attempt,
                   valid_floats, checked, v_reads>>
    /\ valUnchangedRun

\* mutation: the EMPTY and error returns forget ser.close()
Settle_NoClose ==
    /\ vpc = "settle"
    /\ \/ /\ vpc' = "read"
          /\ attempt' = 0
          /\ valid_floats' = 0
          /\ UNCHANGED <<ret, openHandles, v_err>>
       \/ /\ vpc' = "returned"
          /\ ret' = None
          /\ UNCHANGED <<attempt, valid_floats, v_err, openHandles>>
       \/ /\ vpc' = "returned"
          /\ ret' = None
          /\ v_err' = TRUE
          /\ UNCHANGED <<attempt, valid_floats, openHandles>>
    /\ UNCHANGED <<system_ports, final_list, idx, spc, port_name, ser,
                   checked, v_reads>>
    /\ valUnchangedRun

\* lines 132-142: reset_input_buffer, sleep, in_waiting
Settle ==
    /\ vpc = "settle"
    /\ \/ \* bytes have arrived
          /\ vpc' = "read"
          /\ attempt' = 0
          /\ valid_floats' = 0
          /\ UNCHANGED <<ret, openHandles, v_err>>
       \/ \* in_waiting == 0: EMPTY, lines 135-139
          /\ openHandles' = openHandles \ {ser}
          /\ vpc' = "returned"
          /\ ret' = None
          /\ UNCHANGED <<attempt, valid_floats, v_err>>
       \/ \* a serial call raises: lines 162-171
          /\ openHandles' = openHandles \ {ser}
          /\ vpc' = "returned"
          /\ ret' = None
          /\ v_err' = TRUE
          /\ UNCHANGED <<attempt, valid_floats>>
    /\ UNCHANGED <<system_ports, final_list, idx, spc, port_name, ser,
                   checked, v_reads>>
    /\ valUnchangedRun

\* lines 143-150: one iteration of the read loop
ReadAttempt(Lines) ==
    /\ vpc = "read"
    /\ attempt < attempts
    /\ \/ \E raw \in Lines :
            LET line == Strip(DecodeIgnore(raw))
            IN  /\ attempt = 0 => raw # NoBytes   \* in_waiting was positive
                /\ valid_floats' = IF line # <<>> /\ IsFloat(line)
                                   THEN valid_floats + 1 ELSE valid_floats
                /\ attempt' = attempt + 1
                /\ v_reads' = Append(v_reads, line)
                /\ UNCHANGED <<vpc, ret, openHandles, v_err>>
       \/ \* readline raises SerialException: lines 162-167
          /\ openHandles' = openHandles \ {ser}
          /\ vpc' = "returned"
          /\ ret' = None
          /\ v_err' = TRUE
          /\ UNCHANGED <<attempt, valid_floats, v_reads>>
    /\ UNCHANGED <<system_ports, final_list, idx, spc, port_name, ser, checked>>
    /\ valUnchangedRun

\* mutation: one parsed line is enough
Decide_OneIsEnough ==
    /\ vpc = "read"
    /\ attempt = attempts
    /\ vpc' = "returned"
    /\ IF valid_floats >= 1
       THEN ret' = ser /\ UNCHANGED openHandles
       ELSE ret' = None /\ openHandles' = openHandles \ {ser}
    /\ UNCHANGED <<system_ports, final_list, idx, spc, port_name, ser, attempt,
                   valid_floats, checked, v_reads, v_err>>
    /\ valUnchangedRun

\* lines 152-160: the acceptance threshold
Decide ==
    /\ vpc = "read"
    /\ attempt = attempts
    /\ vpc' = "returned"
    /\ IF valid_floats >= 2
       THEN ret' = ser /\ UNCHANGED openHandles
       ELSE ret' = None /\ openHandles' = openHandles \ {ser}
    /\ UNCHANGED <<system_ports, final_list, idx, spc, port_name, ser, attempt,
                   valid_floats, checked, v_reads, v_err>>
    /\ valUnchangedRun

(***************************************************************************)
(* Discovery Orchestrator: find_correct_port                               *)
(***************************************************************************)
\* lines 181-198, or comports() raises: lines 206-210
BuildCandidates ==
    /\ spc = "start"
    /\ \/ \E sp \in HostLists :
            /\ system_ports' = sp
            /\ final_list' = FinalList(sp, MAX_COM_PORT_CHECK)
            /\ idx' = 1
            /\ spc' = "loop"
            /\ UNCHANGED serial_connection
       \/ /\ spc' = "done"
          /\ serial_connection' = None
          /\ UNCHANGED <<system_ports, final_list, idx>>
    /\ UNCHANGED <<port_name, ser, vpc, attempt, valid_floats, ret, checked,
                   v_reads, v_err, openHandles, runVars>>

\* lines 200-201: the call of check_port_for_data(port)
CallCheck ==
    /\ spc = "loop"
    /\ idx <= Len(final_list)
    /\ spc' = "incheck"
    /\ port_name' = final_list[idx]
    /\ ser' = None
    /\ vpc' = "open"
    /\ ret' = None
    /\ attempt' = 0
    /\ valid_floats' = 0
    /\ v_reads' = <<>>
    /\ v_err' = FALSE
    /\ checked' = Append(checked, final_list[idx])
    /\ UNCHANGED <<system_ports, final_list, idx, openHandles,
                   serial_connection, runVars>>

\* mutation: a rejected candidate is validated again
AfterCheck_Again ==
    /\ spc = "incheck"
    /\ vpc = "returned"
    /\ IF ret # None
       THEN /\ spc' = "done"
            /\ serial_connection' = ret
            /\ UNCHANGED idx
       ELSE /\ spc' = "loop"
            /\ idx' = idx
            /\ UNCHANGED serial_connection
    /\ vpc' = "idle"
    /\ UNCHANGED <<system_ports, final_list, port_name, ser, attempt,
                   valid_floats, ret, checked, v_reads, v_err, openHandles,
                   runVars>>

\* lines 202-204: the result of the call
AfterCheck ==
    /\ spc = "incheck"
    /\ vpc = "returned"
    /\ IF ret # None
       THEN /\ spc' = "done"
            /\ serial_connection' = ret
            /\ UNCHANGED idx
       ELSE /\ spc' = "loop"
            /\ idx' = idx + 1
            /\ UNCHANGED serial_connection
    /\ vpc' = "idle"
    /\ UNCHANGED <<system_ports, final_list, port_name, ser, attempt,
                   valid_floats, ret, checked, v_reads, v_err, openHandles,
                   runVars>>

\* lines 209-210: the list is exhausted
NotFound ==
    /\ spc = "loop"
    /\ idx > Len(final_list)
    /\ spc' = "done"
    /\ serial_connection' = None
    /\ UNCHANGED <<system_ports, final_list, idx, port_name, ser, vpc, attempt,
                   valid_floats, ret, checked, v_reads, v_err, openHandles,
                   runVars>>

(***************************************************************************)
(* Durable log: lines 225-238                                              *)
(***************************************************************************)
Header == [c1 |-> "System Time", c2 |-> "Temperature"]
Row(t, val) == [time |-> t, temp |-> val]

ingestUnchangedScan == UNCHANGED <<scanVars, serial_connection>>

\* lines 231-234: open, header, flush; any failure ends the program (238)
CsvSetup ==
    /\ mpc = "setup"
    /\ \/ /\ csv_open' = TRUE
          /\ csv_disk' = <<Header>>
          /\ mpc' = "run"
       \/ /\ mpc' = "exit"
          /\ UNCHANGED <<csv_open, csv_disk>>
    /\ UNCHANGED <<upc, inbuf, sent, full_history_x, full_history_y, csv_buf,
                   lbl_current_temp, line_data, current_window_width,
                   current_y_min, current_y_max, is_smooth_enabled, is_dark_mode, clock,
                   closings, tick_buf0, tick_read, tick_err, log_failed, openHandles>>
    /\ ingestUnchangedScan

(***************************************************************************)
(* Environment: the sender (sender.py lines 34-52) and the wall clock      *)
(***************************************************************************)
SenderWrites ==
    /\ mpc \in {"setup", "run"}
    /\ serial_connection \in openHandles
    /\ sent < MaxSent
    /\ \E raw \in WireLines : inbuf' = Append(inbuf, raw)
    /\ sent' = sent + 1
    /\ UNCHANGED <<mpc, upc, full_history_x, full_history_y, csv_disk, csv_buf,
                   csv_open, lbl_current_temp, line_data, current_window_width,
                   current_y_min, current_y_max, is_smooth_enabled, is_dark_mode, clock,
                   closings, tick_buf0, tick_read, tick_err, log_failed, openHandles>>
    /\ ingestUnchangedScan

Tock ==
    /\ mpc \in {"setup", "run"}
    /\ clock < MaxClock
    /\ clock' = clock + 1
    /\ UNCHANGED <<mpc, upc, inbuf, sent, full_history_x, full_history_y,
                   csv_disk, csv_buf, csv_open, lbl_current_temp, line_data,
                   current_window_width, current_y_min, current_y_max,
                   is_smooth_enabled, is_dark_mode, closings, tick_buf0, tick_read, tick_err,
                   log_failed, openHandles>>
    /\ ingestUnchangedScan

(***************************************************************************)
(* Ingestion Loop: update_graph, lines 429-457                             *)
(***************************************************************************)
\* mutation: the history lists are created anew by every tick
TickPoll_Fresh ==
    /\ mpc = "run"
    /\ upc = "idle"
    /\ \/ /\ inbuf # <<>>
          /\ upc' = "loop"
          /\ tick_buf0' = inbuf
       \/ /\ inbuf = <<>>
          /\ upc' = "flush"
          /\ UNCHANGED tick_buf0
       \/ \* in_waiting raises SerialException: nothing catches it
          /\ upc' = "raised"
          /\ UNCHANGED tick_buf0
    /\ full_history_x' = <<>>
    /\ full_history_y' = <<>>
    /\ UNCHANGED <<mpc, inbuf, sent, csv_disk,
                   csv_buf, csv_open, lbl_current_temp, line_data,
                   current_window_width, current_y_min, current_y_max,
                   is_smooth_enabled, is_dark_mode, clock, closings, tick_read, tick_err,
                   log_failed, openHandles>>
    /\ ingestUnchangedScan

\* line 431: the poll that starts a tick; it is outside every try
TickPoll ==
    /\ mpc = "run"
    /\ upc = "idle"
    /\ \/ /\ inbuf # <<>>
          /\ upc' = "loop"
          /\ tick_buf0' = inbuf
       \/ /\ inbuf = <<>>
          /\ upc' = "flush"
          /\ UNCHANGED tick_buf0
       \/ \* in_waiting raises SerialException: nothing catches it
          /\ upc' = "raised"
          /\ UNCHANGED tick_buf0
    /\ UNCHANGED <<mpc, inbuf, sent, full_history_x, full_history_y, csv_disk,
                   csv_buf, csv_open, lbl_current_temp, line_data,
                   current_window_width, current_y_min, current_y_max,
                   is_smooth_enabled, is_dark_mode, clock, closings, tick_read, tick_err,
                   log_failed, openHandles>>
    /\ ingestUnchangedScan

\* the timer fires again after a tick that raised (line 517)
TickAfterRaise ==
    /\ mpc = "run"
    /\ upc = "raised"
    /\ upc' = "idle"
    /\ UNCHANGED <<mpc, inbuf, sent, full_history_x, full_history_y, csv_disk,
                   csv_buf, csv_open, lbl_current_temp, line_data,
                   current_window_width, current_y_min, current_y_max,
                   is_smooth_enabled, is_dark_mode, clock, closings, tick_buf0, tick_read,
                   tick_err, log_failed, openHandles>>
    /\ ingestUnchangedScan

\* mutation: the sample is kept and shown but no row is written
AcceptSample_NoRow(val) ==
    /\ full_history_y' = Append(full_history_y, val)
    /\ full_history_x' = Append(full_history_x, clock)
    /\ lbl_current_temp' = LabelText(val)
    /\ UNCHANGED <<upc, tick_err, log_failed, csv_buf>>

\* lines 437-445: a parsed value becomes a sample
AcceptSample(val) ==
    /\ full_history_y' = Append(full_history_y, val)
    /\ full_history_x' = Append(full_history_x, clock)
    /\ \/ /\ csv_buf' = Append(csv_buf, Row(clock, val))
          /\ lbl_current_temp' = LabelText(val)
          /\ UNCHANGED <<upc, tick_err, log_failed>>
       \/ \* writerow raises: caught at line 451, the loop is left
          /\ upc' = "flush"
          /\ tick_err' = "log"
          /\ log_failed' = TRUE
          /\ UNCHANGED <<csv_buf, lbl_current_temp>>

\* mutation: an accepted value is stored without its timestamp
ProcessLine_ValueOnly(raw) ==
    IF DecodeStrictRaises(raw) \/ Strip(raw) = <<>> \/ ~IsFloat(Strip(raw))
    THEN UNCHANGED <<upc, tick_err, full_history_x, full_history_y, csv_buf,
                     lbl_current_temp, log_failed>>
    ELSE /\ full_history_y' = Append(full_history_y, FloatVal(Strip(raw)))
         /\ UNCHANGED <<upc, tick_err, full_history_x, csv_buf,
                        lbl_current_temp, log_failed>>

\* line 435 onwards for the line readline() returned
ProcessLine(raw) ==
    IF DecodeStrictRaises(raw)
    THEN \* UnicodeDecodeError is a ValueError: line 447
         /\ upc' = "flush"
         /\ tick_err' = "value"
         /\ UNCHANGED <<full_history_x, full_history_y, csv_buf,
                        lbl_current_temp, log_failed>>
    ELSE IF Strip(raw) = <<>>
    THEN \* line 436: continue
         UNCHANGED <<upc, tick_err, full_history_x, full_history_y, csv_buf,
                     lbl_current_temp, log_failed>>
    ELSE IF ~IsFloat(Strip(raw))
    THEN \* float() raises ValueError: line 447, outside the while loop
         /\ upc' = "flush"
         /\ tick_err' = "value"
         /\ UNCHANGED <<full_history_x, full_history_y, csv_buf,
                        lbl_current_temp, log_failed>>
    ELSE AcceptSample(FloatVal(Strip(raw)))

\* mutation: a line that does not parse empties the input buffer
TickLoop_Reset ==
    /\ mpc = "run"
    /\ upc = "loop"
    /\ \/ \* in_waiting == 0: the loop ends
          /\ inbuf = <<>>
          /\ upc' = "flush"
          /\ UNCHANGED <<inbuf, tick_read, tick_err, full_history_x,
                         full_history_y, csv_buf, lbl_current_temp, log_failed>>
       \/ \* readline() returns the next line
          /\ inbuf # <<>>
          /\ inbuf' = IF DecodeStrictRaises(Head(inbuf))
                          \/ (Strip(Head(inbuf)) # <<>>
                              /\ ~IsFloat(Strip(Head(inbuf))))
                       THEN <<>> ELSE Tail(inbuf)
          /\ tick_read' = Append(tick_read, Head(inbuf))
          /\ ProcessLine(Head(inbuf))
       \/ \* in_waiting or readline raises SerialException: line 451
          /\ upc' = "flush"
          /\ tick_err' = "io"
          /\ UNCHANGED <<inbuf, tick_read, full_history_x, full_history_y,
                         csv_buf, lbl_current_temp, log_failed>>
    /\ UNCHANGED <<mpc, sent, csv_disk, csv_open, line_data,
                   current_window_width, current_y_min, current_y_max,
                   is_smooth_enabled, is_dark_mode, clock, closings, tick_buf0, openHandles>>
    /\ ingestUnchangedScan

\* lines 434-445: one evaluation of the while condition and one loop body
TickLoop ==
    /\ mpc = "run"
    /\ upc = "loop"
    /\ \/ \* in_waiting == 0: the loop ends
          /\ inbuf = <<>>
          /\ upc' = "flush"
          /\ UNCHANGED <<inbuf, tick_read, tick_err, full_history_x,
                         full_history_y, csv_buf, lbl_current_temp, log_failed>>
       \/ \* readline() returns the next line
          /\ inbuf # <<>>
          /\ inbuf' = Tail(inbuf)
          /\ tick_read' = Append(tick_read, Head(inbuf))
          /\ ProcessLine(Head(inbuf))
       \/ \* in_waiting or readline raises SerialException: line 451
          /\ upc' = "flush"
          /\ tick_err' = "io"
          /\ UNCHANGED <<inbuf, tick_read, full_history_x, full_history_y,
                         csv_buf, lbl_current_temp, log_failed>>
    /\ UNCHANGED <<mpc, sent, csv_disk, csv_open, line_data,
                   current_window_width, current_y_min, current_y_max,
                   is_smooth_enabled, is_dark_mode, clock, closings, tick_buf0, openHandles>>
    /\ ingestUnchangedScan

\* mutation: the rows written by a tick stay in the file buffer
TickFlush_Skip ==
    /\ mpc = "run"
    /\ upc = "flush"
    /\ upc' = "view"
    /\ \/ UNCHANGED <<csv_disk, csv_buf, log_failed>>
       \/ \* flush raises: logged at line 457
          /\ log_failed' = TRUE
          /\ UNCHANGED <<csv_disk, csv_buf>>
    /\ UNCHANGED <<mpc, inbuf, sent, full_history_x, full_history_y, csv_open,
                   lbl_current_temp, line_data, current_window_width,
                   current_y_min, current_y_max, is_smooth_enabled, is_dark_mode, clock,
                   closings, tick_buf0, tick_read, tick_err,
                   openHandles>>
    /\ ingestUnchangedScan

\* lines 454-457: the flush at the end of the read phase
TickFlush ==
    /\ mpc = "run"
    /\ upc = "flush"
    /\ upc' = "view"
    /\ \/ /\ csv_disk' = csv_disk \o csv_buf
          /\ csv_buf' = <<>>
          /\ UNCHANGED log_failed
       \/ \* flush raises: logged at line 457
          /\ log_failed' = TRUE
          /\ UNCHANGED <<csv_disk, csv_buf>>
    /\ UNCHANGED <<mpc, inbuf, sent, full_history_x, full_history_y, csv_open,
                   lbl_current_temp, line_data, current_window_width,
                   current_y_min, current_y_max, is_smooth_enabled, is_dark_mode, clock,
                   closings, tick_buf0, tick_read, tick_err,
                   openHandles>>
    /\ ingestUnchangedScan

(***************************************************************************)
(* Window Selector and Smoothing Stage: update_graph, lines 459-514        *)
(***************************************************************************)
Max(a, b) == IF a >= b THEN a ELSE b

\* mutation: the slice starts at the first entry
ViewStart_Zero(n, width) == 0

\* lines 463-465: the slice [start:]
ViewStart(n, width) == Max(0, n - width)
View(hist, width) == SubSeq(hist, ViewStart(Len(hist), width) + 1, Len(hist))

\* line 483/486: line.set_data(x_indices, view_y)
RawLine(view_x, view_y) ==
    [kind |-> "raw", npoints |-> Len(view_y), xlo |-> 0,
     xhi |-> Len(view_y) - 1, src |-> view_y, labels |-> view_x]

\* lines 472-479: a cubic spline over the indices, sampled at 300 points
SmoothLine(view_x, view_y) ==
    [kind |-> "smooth", npoints |-> SmoothPoints, xlo |-> 0,
     xhi |-> Len(view_y) - 1, src |-> view_y, labels |-> view_x]

NoLine == [kind |-> "raw", npoints |-> 0, xlo |-> 0, xhi |-> 0 - 1,
           src |-> <<>>, labels |-> <<>>]

\* mutation: the curve is fitted from three values on
TickRender_From3 ==
    /\ mpc = "run"
    /\ upc = "view"
    /\ upc' = "idle"
    /\ IF full_history_x = <<>>
       THEN UNCHANGED line_data                            \* line 459
       ELSE LET view_x == View(full_history_x, current_window_width)
                view_y == View(full_history_y, current_window_width)
            IN  IF is_smooth_enabled /\ Len(view_y) > 2
                THEN \/ line_data' = SmoothLine(view_x, view_y)
                     \/ line_data' = RawLine(view_x, view_y)   \* the fit raised
                ELSE line_data' = RawLine(view_x, view_y)
    /\ tick_buf0' = <<>>
    /\ tick_read' = <<>>
    /\ tick_err' = "none"
    /\ UNCHANGED <<mpc, inbuf, sent, full_history_x, full_history_y, csv_disk,
                   csv_buf, csv_open, lbl_current_temp, current_window_width,
                   current_y_min, current_y_max, is_smooth_enabled, is_dark_mode, clock,
                   closings, log_failed, openHandles>>
    /\ ingestUnchangedScan

\* lines 459-514: the view and render step of a tick
TickRender ==
    /\ mpc = "run"
    /\ upc = "view"
    /\ upc' = "idle"
    /\ IF full_history_x = <<>>
       THEN UNCHANGED line_data                            \* line 459
       ELSE LET view_x == View(full_history_x, current_window_width)
                view_y == View(full_history_y, current_window_width)
            IN  IF is_smooth_enabled /\ Len(view_y) > 3
                THEN \/ line_data' = SmoothLine(view_x, view_y)
                     \/ line_data' = RawLine(view_x, view_y)   \* the fit raised
                ELSE line_data' = RawLine(view_x, view_y)
    /\ tick_buf0' = <<>>
    /\ tick_read' = <<>>
    /\ tick_err' = "none"
    /\ UNCHANGED <<mpc, inbuf, sent, full_history_x, full_history_y, csv_disk,
                   csv_buf, csv_open, lbl_current_temp, current_window_width,
                   current_y_min, current_y_max, is_smooth_enabled, is_dark_mode, clock,
                   closings, log_failed, openHandles>>
    /\ ingestUnchangedScan

(***************************************************************************)
(* Settings: apply_settings (299-322), toggle_smooth (331-338)             *)
(***************************************************************************)
E_15_0 == <<"1", "5", ".", "0">>
E_35_0 == <<"3", "5", ".", "0">>
E_20   == <<"2", "0">>
E_40   == <<"4", "0">>
E_abc  == <<"a", "b", "c">>
E_1    == <<"1">>
E_2    == <<"2">>
E_3    == <<"3">>
E_10   == <<"1", "0">>
E_nan  == <<"n", "a", "n">>

MinEntries   == {E_15_0, E_40, E_abc}
MaxEntries   == {E_35_0, E_20}
WidthEntries == {E_1, E_2, E_abc}

\* what a user may type when the settings alone are examined
TypedMins   == {E_15_0, E_10, E_40, E_abc, E_nan}
TypedMaxs   == {E_35_0, E_20, E_abc}
TypedWidths == {E_1, E_2, E_3, E_abc}

guiIdle == mpc = "run" /\ upc \in {"idle", "raised"}

\* lines 299-322 for the texts of the three entry fields
apply_settings_from(Mins, Maxs, Widths) ==
    /\ guiIdle
    /\ \E e_min \in Mins, e_max \in Maxs, e_width \in Widths :
         IF ~(IsFloat(e_min) \/ IsNanText(e_min))
            \/ ~(IsFloat(e_max) \/ IsNanText(e_max))
            \/ ~IsInt(e_width)
         THEN \* ValueError: line 319
              UNCHANGED <<current_y_min, current_y_max, current_window_width>>
         ELSE LET new_min   == ParseFloat(e_min)
                  new_max   == ParseFloat(e_max)
                  new_width == IntVal(e_width)
              IN  IF FloatGe(new_min, new_max) \/ new_width < 2
                  THEN UNCHANGED <<current_y_min, current_y_max,
                                   current_window_width>>
                  ELSE /\ current_y_min' = new_min
                       /\ current_y_max' = new_max
                       /\ current_window_width' = new_width
    /\ UNCHANGED <<mpc, upc, inbuf, sent, full_history_x, full_history_y,
                   csv_disk, csv_buf, csv_open, lbl_current_temp, line_data,
                   is_smooth_enabled, is_dark_mode, clock, closings,
                   tick_buf0, tick_read, tick_err, log_failed, openHandles>>
    /\ ingestUnchangedScan

apply_settings == apply_settings_from(MinEntries, MaxEntries, WidthEntries)

toggle_smooth ==
    /\ guiIdle
    /\ is_smooth_enabled' = ~is_smooth_enabled
    /\ UNCHANGED <<mpc, upc, inbuf, sent, full_history_x, full_history_y,
                   csv_disk, csv_buf, csv_open, lbl_current_temp, line_data,
                   current_window_width, current_y_min, current_y_max,
                   is_dark_mode, clock, closings, tick_buf0, tick_read,
                   tick_err, log_failed, openHandles>>
    /\ ingestUnchangedScan

\* lines 347-351: the theme button; update_theme_colors only recolours
\* the widgets and the axes
toggle_theme ==
    /\ guiIdle
    /\ is_dark_mode' = ~is_dark_mode
    /\ UNCHANGED <<mpc, upc, inbuf, sent, full_history_x, full_history_y,
                   csv_disk, csv_buf, csv_open, lbl_current_temp, line_data,
                   current_window_width, current_y_min, current_y_max,
                   is_smooth_enabled, clock, closings, tick_buf0, tick_read,
                   tick_err, log_failed, openHandles>>
    /\ ingestUnchangedScan

(***************************************************************************)
(* Shutdown: on_closing, lines 520-534                                     *)
(***************************************************************************)
closeUnchanged ==
    UNCHANGED <<upc, inbuf, sent, full_history_x, full_history_y,
                lbl_current_temp, line_data, current_window_width,
                current_y_min, current_y_max, is_smooth_enabled, is_dark_mode, clock,
                tick_buf0, tick_read, tick_err>>

\* the window manager delivers WM_DELETE_WINDOW (line 537)
OnClosing ==
    /\ \/ guiIdle
       \/ mpc = "stopped"
    /\ closings < MaxClosings
    /\ closings' = closings + 1
    /\ mpc' = "closing_serial"
    /\ UNCHANGED <<csv_disk, csv_buf, csv_open, log_failed, openHandles>>
    /\ closeUnchanged
    /\ ingestUnchangedScan

\* mutation: the connection is tested but never closed
CloseSerial_NoClose ==
    /\ mpc = "closing_serial"
    /\ mpc' = "closing_csv"
    /\ UNCHANGED openHandles
    /\ UNCHANGED <<csv_disk, csv_buf, csv_open, log_failed, closings>>
    /\ closeUnchanged
    /\ ingestUnchangedScan

\* lines 523-525
CloseSerial ==
    /\ mpc = "closing_serial"
    /\ mpc' = "closing_csv"
    /\ IF serial_connection # None /\ serial_connection \in openHandles
       THEN openHandles' = openHandles \ {serial_connection}
       ELSE UNCHANGED openHandles
    /\ UNCHANGED <<csv_disk, csv_buf, csv_open, log_failed, closings>>
    /\ closeUnchanged
    /\ ingestUnchangedScan

\* lines 526-534: close() flushes what is buffered; on a closed file it
\* does nothing
CloseCsv ==
    /\ mpc = "closing_csv"
    /\ mpc' = "stopped"
    /\ csv_open' = FALSE
    /\ IF csv_open /\ csv_buf # <<>>
       THEN \/ /\ csv_disk' = csv_disk \o csv_buf
               /\ csv_buf' = <<>>
               /\ UNCHANGED log_failed
            \/ \* the flush inside close() raises: caught at line 529
               /\ csv_buf' = <<>>
               /\ log_failed' = TRUE
               /\ UNCHANGED csv_disk
       ELSE UNCHANGED <<csv_disk, csv_buf, log_failed>>
    /\ UNCHANGED <<closings, openHandles>>
    /\ closeUnchanged
    /\ ingestUnchangedScan

(***************************************************************************)
(* Initial states                                                          *)
(***************************************************************************)
ScanIdle ==
    /\ system_ports = <<>>
    /\ final_list = <<>>
    /\ idx = 0
    /\ ser = None
    /\ attempt = 0
    /\ valid_floats = 0
    /\ ret = None
    /\ checked = <<>>
    /\ v_reads = <<>>
    /\ v_err = FALSE

\* module level before line 216; lines 41-50 and 359
RunIdle ==
    /\ upc = "idle"
    /\ inbuf = <<>>
    /\ sent = 0
    /\ full_history_x = <<>>
    /\ full_history_y = <<>>
    /\ csv_disk = <<>>
    /\ csv_buf = <<>>
    /\ csv_open = FALSE
    /\ lbl_current_temp = InitialLabel
    /\ line_data = NoLine
    /\ current_window_width = 50
    /\ current_y_min = Num(1500)
    /\ current_y_max = Num(3500)
    /\ is_smooth_enabled = TRUE
    /\ is_dark_mode = TRUE
    /\ clock = 0
    /\ closings = 0
    /\ tick_buf0 = <<>>
    /\ tick_read = <<>>
    /\ tick_err = "none"
    /\ log_failed = FALSE

\* a test harness calls check_port_for_data on one endpoint
InitValidator ==
    /\ ScanIdle
    /\ RunIdle
    /\ spc = "harness"
    /\ vpc = "open"
    /\ mpc = "scan"
    /\ openHandles = {}
    /\ serial_connection = None
    /\ \E p \in {"COM3"} : port_name = p

\* line 216: find_correct_port is called
InitScan ==
    /\ ScanIdle
    /\ RunIdle
    /\ spc = "start"
    /\ vpc = "idle"
    /\ port_name = None
    /\ mpc = "scan"
    /\ openHandles = {}
    /\ serial_connection = None

NextValidator ==
    \/ OpenEndpoint
    \/ Settle
    \/ ReadAttempt(ProbeLines)
    \/ Decide

NextScan ==
    \/ BuildCandidates
    \/ CallCheck
    \/ OpenEndpoint
    \/ Settle
    \/ ReadAttempt(ScanLines)
    \/ Decide
    \/ AfterCheck
    \/ NotFound

SpecValidator == InitValidator /\ [][NextValidator]_vars
SpecScan == InitScan /\ [][NextScan]_vars

\* after line 216 returned a connection, before the CSV setup
Init ==
    /\ ScanIdle
    /\ RunIdle
    /\ spc = "done"
    /\ vpc = "idle"
    /\ port_name = None
    /\ mpc = "setup"
    /\ \E p \in {"COM3"} : serial_connection = p /\ openHandles = {p}

Next ==
    \/ CsvSetup
    \/ SenderWrites
    \/ Tock
    \/ TickPoll
    \/ TickAfterRaise
    \/ TickLoop
    \/ TickFlush
    \/ TickRender
    \/ apply_settings
    \/ toggle_smooth
    \/ toggle_theme
    \/ OnClosing
    \/ CloseSerial
    \/ CloseCsv

Spec == Init /\ [][Next]_vars

(***************************************************************************)
(* The end-to-end scenario: the sender emits three fixed lines, each       *)
(* between two ticks                                                       *)
(***************************************************************************)
Script == <<L_23_40, L_nan, L_23_55>>

SenderScript ==
    /\ mpc \in {"setup", "run"}
    /\ upc \in {"idle", "raised"}
    /\ serial_connection \in openHandles
    /\ inbuf = <<>>
    /\ sent < Len(Script)
    /\ inbuf' = <<Script[sent + 1]>>
    /\ sent' = sent + 1
    /\ UNCHANGED <<mpc, upc, full_history_x, full_history_y, csv_disk, csv_buf,
                   csv_open, lbl_current_temp, line_data, current_window_width,
                   current_y_min, current_y_max, is_smooth_enabled, is_dark_mode, clock,
                   closings, tick_buf0, tick_read, tick_err, log_failed,
                   openHandles>>
    /\ ingestUnchangedScan

NextE2E ==
    \/ CsvSetup
    \/ SenderScript
    \/ Tock
    \/ TickPoll
    \/ TickAfterRaise
    \/ TickLoop
    \/ TickFlush
    \/ TickRender
    \/ apply_settings
    \/ toggle_smooth
    \/ OnClosing
    \/ CloseSerial
    \/ CloseCsv

SpecE2E == Init /\ [][NextE2E]_vars

(***************************************************************************)
(* Rendering after a burst: the first tick found a burst of numeric lines  *)
(* buffered and its read loop has just ended                               *)
(***************************************************************************)
Bursts == SeqsUpTo({L_23_40, L_23_55}, MaxHist)

BurstVals(lines) == [i \in 1..Len(lines) |-> FloatVal(Strip(lines[i]))]

InitView ==
    /\ ScanIdle
    /\ spc = "done"
    /\ vpc = "idle"
    /\ port_name = None
    /\ \E p \in {"COM3"} : serial_connection = p /\ openHandles = {p}
    /\ mpc = "run"
    /\ upc = "flush"
    /\ inbuf = <<>>
    /\ \E lines \in Bursts :
         /\ sent = Len(lines)
         /\ tick_buf0 = lines
         /\ tick_read = lines
         /\ full_history_y = BurstVals(lines)
         /\ full_history_x = [i \in 1..Len(lines) |-> 0]
         /\ csv_buf = [i \in 1..Len(lines) |-> Row(0, BurstVals(lines)[i])]
         /\ lbl_current_temp = IF lines = <<>> THEN InitialLabel
                               ELSE LabelText(BurstVals(lines)[Len(lines)])
    /\ csv_disk = <<Header>>
    /\ csv_open = TRUE
    /\ line_data = NoLine
    /\ current_window_width = 50
    /\ current_y_min = Num(1500)
    /\ current_y_max = Num(3500)
    /\ is_smooth_enabled = TRUE
    /\ is_dark_mode = TRUE
    /\ clock = 0
    /\ closings = 0
    /\ tick_err = "none"
    /\ log_failed = FALSE

NextView ==
    \/ Tock
    \/ TickPoll
    \/ TickAfterRaise
    \/ TickFlush
    \/ TickRender
    \/ apply_settings
    \/ toggle_smooth
    \/ OnClosing
    \/ CloseSerial
    \/ CloseCsv

SpecView == InitView /\ [][NextView]_vars

(***************************************************************************)
(* The settings alone: the GUI runs, the sender is silent and the user     *)
(* submits the settings form with any of the typed texts                   *)
(***************************************************************************)
apply_settings_typed == apply_settings_from(TypedMins, TypedMaxs, TypedWidths)

NextSettings ==
    \/ CsvSetup
    \/ Tock
    \/ TickPoll
    \/ TickAfterRaise
    \/ TickFlush
    \/ TickRender
    \/ apply_settings_typed
    \/ toggle_smooth
    \/ toggle_theme

SpecSettings == Init /\ [][NextSettings]_vars

(***************************************************************************)
(* A stream: the sender emits a fixed sequence of lines at any moments     *)
(* while the ticks run, so that lines queue up behind one another          *)
(***************************************************************************)
Stream == <<L_23_40, L_nan, L_23_55, L_blank, L_bad, L_23_40>>

SenderStream ==
    /\ mpc \in {"setup", "run"}
    /\ serial_connection \in openHandles
    /\ sent < Len(Stream)
    /\ inbuf' = Append(inbuf, Stream[sent + 1])
    /\ sent' = sent + 1
    /\ UNCHANGED <<mpc, upc, full_history_x, full_history_y, csv_disk, csv_buf,
                   csv_open, lbl_current_temp, line_data, current_window_width,
                   current_y_min, current_y_max, is_smooth_enabled,
                   is_dark_mode, clock, closings, tick_buf0, tick_read,
                   tick_err, log_failed, openHandles>>
    /\ ingestUnchangedScan

NextStream ==
    \/ CsvSetup
    \/ SenderStream
    \/ TickPoll
    \/ TickAfterRaise
    \/ TickLoop
    \/ TickFlush
    \/ TickRender

SpecStream == Init /\ [][NextStream]_vars

\* a step of the read loop that takes a line out of the buffer, and the
\* states in which readline() can return one
ReadsLine == upc = "loop" /\ inbuf # <<>> /\ inbuf' = Tail(inbuf)
CanReadLine == mpc = "run" /\ upc = "loop" /\ inbuf # <<>>

\* the while condition of line 434 is evaluated after every loop body
LoopRuns == []<>(~(mpc = "run" /\ upc = "loop")) \/ []<><<TickLoop>>_vars

\* read errors do not recur for ever: a read that can succeed again and
\* again does succeed
ReadsSucceed == <>[](~CanReadLine) \/ []<><<ReadsLine>>_vars

\* the timer of line 517 keeps firing and a tick, once started, runs to its
\* end; a poll that can succeed again and again does succeed
SpecStreamFair ==
    /\ SpecStream
    /\ WF_vars(CsvSetup)
    /\ SF_vars(TickPoll /\ upc' # "raised")
    /\ WF_vars(TickAfterRaise)
    /\ LoopRuns
    /\ ReadsSucceed
    /\ WF_vars(TickFlush)
    /\ WF_vars(TickRender)

(***************************************************************************)
(* Helpers of the properties                                               *)
(***************************************************************************)
IsPrefix(s, t) == Len(s) <= Len(t) /\ SubSeq(t, 1, Len(s)) = s

LastN(s, n) == [i \in 1..n |-> s[Len(s) - n + i]]

Min(a, b) == IF a <= b THEN a ELSE b

\* a line that update_graph turns into a sample
IsSampleLine(raw) ==
    /\ ~DecodeStrictRaises(raw)
    /\ Strip(raw) # <<>>
    /\ IsFloat(Strip(raw))

SampleLines(lines) == SelectSeq(lines, IsSampleLine)

SampleVals(lines) ==
    [i \in 1..Len(SampleLines(lines)) |-> FloatVal(Strip(SampleLines(lines)[i]))]

Temps(rows) == [i \in 1..Len(rows) |-> rows[i].temp]

(***************************************************************************)
(* Properties                                                              *)
(***************************************************************************)

\* C1: when the read phase of a tick is over, no serial or log error
\* occurred in it and the lines buffered at its start were well-formed
\* text, every line that was buffered when the tick started has been read, and the numeric ones among them are the newest entries of
\* the history, also when a garbage line preceded them.
C1_TickDrainsBufferedLines ==
    (/\ upc \in {"flush", "view"}
     /\ tick_err \in {"none", "value"}
     /\ \A i \in 1..Len(tick_buf0) : ~DecodeStrictRaises(tick_buf0[i]))
        => /\ IsPrefix(tick_buf0, tick_read)
           /\ Len(full_history_y) >= Len(SampleVals(tick_buf0))
           /\ IsPrefix(SampleVals(tick_buf0),
                       LastN(full_history_y, Len(SampleVals(tick_read))))

\* C2: as long as no log write or flush has failed, at most one appended
\* row is unflushed in any state: each row is forced to storage before the
\* next sample is processed.
C2_EveryRowFlushedAtOnce ==
    ~log_failed => Len(csv_buf) <= 1

\* C3: when on_closing returns, the connection and the log handle are both
\* closed; the connection is closed before the log handle; an invocation
\* that finds the handles closed leaves them closed and returns.
C3_ShutdownClosesBoth ==
    /\ mpc = "stopped" => (serial_connection \notin openHandles /\ ~csv_open)
    /\ mpc = "closing_csv" => serial_connection \notin openHandles
    /\ (closings > 0 /\ ~csv_open) => serial_connection \notin openHandles

C3_Witness ==
    /\ mpc = "stopped"
    /\ closings = 2
    /\ full_history_y # <<>>

\* C4: no read or decode error, and no error of the buffered-byte-count
\* check, leaves update_graph.
C4_NoErrorEscapesTick == upc # "raised"

\* C5: in the end-to-end scenario ("23.40", "not-a-number", "23.55", one
\* line per tick) without a log failure: once the three lines are consumed
\* and the tick is over, the history holds 23.40 then 23.55, the log holds
\* the header and these two rows, and the label shows 23.55; when the read
\* phase of the tick that read only the garbage line is over, history, log
\* rows and label are what the first tick left; and no step that reads a
\* line which is not a sample changes history, log rows or label.
C5_Final ==
    (sent = 3 /\ inbuf = <<>> /\ upc = "idle" /\ mpc = "run" /\ ~log_failed)
        => /\ full_history_y = <<2340, 2355>>
           /\ Len(full_history_x) = 2
           /\ Len(csv_disk) = 3
           /\ csv_disk[1] = Header
           /\ Temps(Tail(csv_disk)) = <<2340, 2355>>
           /\ csv_buf = <<>>
           /\ lbl_current_temp =
                  <<"T", ":", " ", "2", "3", ".", "5", "5", " ", "°", "C">>

C5_GarbageTick ==
    (upc \in {"flush", "view"} /\ tick_read = <<L_nan>> /\ ~log_failed)
        => /\ full_history_y = <<2340>>
           /\ Len(full_history_x) = 1
           /\ Temps(Tail(csv_disk) \o csv_buf) = <<2340>>
           /\ lbl_current_temp =
                  <<"T", ":", " ", "2", "3", ".", "4", "0", " ", "°", "C">>

C5_GarbageStep ==
    (upc = "loop" /\ inbuf # <<>> /\ inbuf' = Tail(inbuf)
        /\ ~IsSampleLine(Head(inbuf)))
        => UNCHANGED <<full_history_x, full_history_y, csv_disk, csv_buf,
                       lbl_current_temp>>

C5_EndToEnd ==
    /\ [](C5_Final /\ C5_GarbageTick)
    /\ [][C5_GarbageStep]_vars

C5_Witness ==
    /\ sent = 3
    /\ inbuf = <<>>
    /\ upc = "idle"
    /\ mpc = "run"
    /\ ~log_failed
    /\ full_history_y = <<2340, 2355>>
    /\ Len(csv_disk) = 3

\* C6: discovery holds at most one endpoint open at any time; when
\* check_port_for_data returns 'no match' the endpoint it opened is closed;
\* when find_correct_port has returned, the only open endpoint is the one
\* it returned.
C6_NoLeakedConnection ==
    /\ Cardinality(openHandles) <= 1
    /\ openHandles \subseteq {port_name}
    /\ (vpc = "returned" /\ ret = None) => openHandles = {}
    /\ spc = "done" =>
           openHandles = (IF serial_connection = None THEN {}
                          ELSE {serial_connection})

C6_Witness ==
    /\ vpc = "returned"
    /\ ret = None
    /\ ser # None
    /\ Len(checked) >= 2

NoDuplicates(s) == \A i, j \in 1..Len(s) : i # j => s[i] # s[j]

\* C7: the names handed to the validator are an initial segment of the
\* candidate list, in list order and without repetition; the loop moves to
\* the next candidate only after a rejection; a returned connection is
\* that of the last name validated; 'not found' after a built list means
\* every candidate was validated.
C7_Order ==
    /\ IsPrefix(checked, final_list)
    /\ NoDuplicates(checked)
    /\ spc = "incheck" => (Len(checked) = idx /\ port_name = final_list[idx])
    /\ spc = "loop" => Len(checked) = idx - 1
    /\ (spc = "done" /\ serial_connection # None)
           => (checked # <<>> /\ serial_connection = checked[Len(checked)])
    /\ (spc = "done" /\ serial_connection = None) => checked = final_list

C7_Advance ==
    (idx' # idx /\ spc = "incheck") => (ret = None /\ idx' = idx + 1)

C7_InOrderOnceFirstMatch ==
    /\ []C7_Order
    /\ [][C7_Advance]_vars

C7_Witness ==
    /\ spc = "done"
    /\ serial_connection # None
    /\ system_ports = <<"COM3", "COM3">>
    /\ Len(checked) >= 3

Suffix(name) == CHOOSE n \in 1..99 : ComName(n) = name

Occurrences(x, s) == Cardinality({i \in 1..Len(s) : s[i] = x})

HostSet == {system_ports[i] : i \in 1..Len(system_ports)}

\* C8: the candidate list holds every host-reported name once and every
\* other name of COM1..COM<M> once, the host-reported names first, and
\* each of the two groups in ascending order of numeric suffix.
C8_CandidateListOrdered ==
    spc \in {"loop", "incheck"} =>
        LET k == Cardinality(HostSet)
        IN  /\ \A h \in HostSet : Occurrences(h, final_list) = 1
            /\ \A i \in 1..MAX_COM_PORT_CHECK :
                   Occurrences(ComName(i), final_list) = 1
            /\ \A i \in 1..Len(final_list) :
                   (final_list[i] \in HostSet) <=> (i <= k)
            /\ \A i, j \in 1..k :
                   i < j => Suffix(final_list[i]) < Suffix(final_list[j])
            /\ \A i, j \in (k + 1)..Len(final_list) :
                   i < j => Suffix(final_list[i]) < Suffix(final_list[j])

T_21_5    == <<"2", "1", ".", "5">>
T_22_1    == <<"2", "2", ".", "1">>
T_garbage == <<"g", "a", "r", "b", "a", "g", "e">>
T_badword == <<"b", "a", "d">>

ParsedCount(reads) ==
    Cardinality({i \in 1..Len(reads) : reads[i] # <<>> /\ IsFloat(reads[i])})

\* C9 as stated: the validator accepts exactly when the endpoint opened,
\* had bytes after the settle delay and at least 2 of its line reads parse.
C9_AcceptIffTwoParse ==
    vpc = "returned" =>
        (ret # None <=> (ser # None /\ v_reads # <<>>
                         /\ ParsedCount(v_reads) >= 2))

\* C9 amended: the validator accepts exactly when the endpoint opened, had
\* bytes after the settle delay, no serial call raised, and at least 2 of
\* its 4 line reads parse; the reads 21.5, garbage, 22.1, bad are accepted,
\* the reads x, y, z, w are rejected, and an endpoint without bytes after
\* the settle delay is rejected with no line read.
C9_AcceptIffTwoParseNoError ==
    vpc = "returned" =>
        /\ ret # None <=> (ser # None /\ ~v_err /\ Len(v_reads) = attempts
                           /\ ParsedCount(v_reads) >= 2)
        /\ ret # None => ret = port_name
        /\ v_reads = <<T_21_5, T_garbage, T_22_1, T_badword>> => ret # None
        /\ v_reads = <<<<"x">>, <<"y">>, <<"z">>, <<"w">>>> => ret = None
        /\ (ser # None /\ ~v_err /\ attempt < attempts)
               => (v_reads = <<>> /\ ret = None)

C9_Witness ==
    /\ vpc = "returned"
    /\ ret # None
    /\ v_reads = <<T_21_5, T_garbage, T_22_1, T_badword>>

\* C10: a tick that renders shows exactly the last min(k, N) history
\* entries in insertion order, k being the window width at that moment; a
\* tick with an empty history changes nothing on the plot and ends
\* normally; apply_settings and the ticks' rendering leave the history as
\* it is.
C10_Render ==
    (upc = "view" /\ upc' = "idle") =>
        IF full_history_x = <<>>
        THEN line_data' = line_data
        ELSE LET n == Min(current_window_width, Len(full_history_y))
             IN  /\ line_data'.src = LastN(full_history_y, n)
                 /\ line_data'.labels = LastN(full_history_x, n)

C10_WidthChange ==
    (current_window_width' # current_window_width \/ upc = "view")
        => UNCHANGED <<full_history_x, full_history_y>>

C10_ViewIsLastEntries ==
    /\ [][C10_Render]_vars
    /\ [][C10_WidthChange]_vars

C10_Witness ==
    /\ upc = "idle"
    /\ current_window_width = 2
    /\ Len(full_history_y) = 3
    /\ full_history_y[2] # full_history_y[3]
    /\ line_data.src = LastN(full_history_y, 2)
    /\ line_data.src # full_history_y

\* C11: the two history sequences have the same length in every state,
\* in particular when the view step reads them and after a tick in which
\* garbage was read or an error was caught; and every step that changes
\* the history appends exactly one entry to each sequence, the value parsed
\* from the line just read and the time at which it was read.
C11_SameLength == Len(full_history_x) = Len(full_history_y)

C11_PairedAppend ==
    (full_history_x' # full_history_x \/ full_history_y' # full_history_y)
        => /\ upc = "loop"
           /\ inbuf # <<>>
           /\ IsSampleLine(Head(inbuf))
           /\ full_history_y' =
                  Append(full_history_y, FloatVal(Strip(Head(inbuf))))
           /\ full_history_x' = Append(full_history_x, clock)

C11_HistoriesPaired == []C11_SameLength /\ [][C11_PairedAppend]_vars

C11_Witness ==
    /\ upc = "view"
    /\ tick_err = "log"
    /\ Len(full_history_y) = 2
    /\ Len(full_history_x) = 2

\* C12: the history is append-only: in every step of the program (ticks,
\* apply_settings, the smoothing and theme toggles, shutdown) the history
\* before the step is a prefix of the history after it, and only the read
\* loop of a tick extends it.
C12_Step ==
    /\ IsPrefix(full_history_x, full_history_x')
    /\ IsPrefix(full_history_y, full_history_y')
    /\ (full_history_x' # full_history_x \/ full_history_y' # full_history_y)
           => (mpc = "run" /\ upc = "loop" /\ inbuf' = Tail(inbuf))

C12_AppendOnly == [][C12_Step]_vars

C12_Witness ==
    /\ mpc = "stopped"
    /\ Len(full_history_y) = 2
    /\ current_window_width = 2
    /\ ~is_dark_mode
    /\ ~is_smooth_enabled
    /\ line_data.npoints = 2

\* C13: apply_settings is all-or-nothing: when an entry does not parse, or
\* min >= max, or width < 2, none of the three settings changes, and
\* otherwise all three are replaced by the submitted values together; and
\* in every reachable state current_window_width >= 2 and
\* current_y_min < current_y_max.
C13_Step ==
    \/ UNCHANGED <<current_y_min, current_y_max, current_window_width>>
    \/ \E e_min \in TypedMins, e_max \in TypedMaxs, e_width \in TypedWidths :
         /\ IsFloat(e_min) \/ IsNanText(e_min)
         /\ IsFloat(e_max) \/ IsNanText(e_max)
         /\ IsInt(e_width)
         /\ ~FloatGe(ParseFloat(e_min), ParseFloat(e_max))
         /\ IntVal(e_width) >= 2
         /\ current_y_min' = ParseFloat(e_min)
         /\ current_y_max' = ParseFloat(e_max)
         /\ current_window_width' = IntVal(e_width)

C13_Limits ==
    /\ current_window_width >= 2
    /\ FloatLt(current_y_min, current_y_max)

C13_AllOrNothing == [][C13_Step]_vars /\ []C13_Limits

\* C14: as long as no log write has failed, when a tick is over the
\* durable log is the header row followed by one data row per history
\* entry, in the same order and with the same values; and in every state
\* after the log was set up the log starts with the header and its data
\* rows, flushed or not, are the values of the first entries of the
\* history, so that no data row is without its history entry.
C14_Rows == Tail(csv_disk) \o csv_buf

C14_TickEnd ==
    (mpc = "run" /\ upc \in {"view", "idle", "raised"} /\ ~log_failed)
        => /\ csv_buf = <<>>
           /\ csv_disk[1] = Header
           /\ Len(csv_disk) = 1 + Len(full_history_y)
           /\ Temps(Tail(csv_disk)) = full_history_y

C14_NoOrphanRow ==
    (mpc \in {"run", "closing_serial", "closing_csv", "stopped"} /\ ~log_failed)
        => /\ csv_disk # <<>>
           /\ csv_disk[1] = Header
           /\ \A i \in 1..Len(C14_Rows) : C14_Rows[i] # Header
           /\ IsPrefix(Temps(C14_Rows), full_history_y)

C14_LogMirrorsHistory == C14_TickEnd /\ C14_NoOrphanRow

C14_Witness ==
    /\ mpc = "run"
    /\ upc = "idle"
    /\ ~log_failed
    /\ Len(full_history_y) = 2
    /\ Len(csv_disk) = 3
    /\ Temps(Tail(csv_disk)) = full_history_y

\* C15: discovery makes more than one pass over the candidates: when it
\* returns 'not found', a candidate that it rejected because no data had
\* arrived yet (its sender may have started slightly later) has been
\* validated again in a later pass. The state examined is the return of
\* 'not found' right after the last candidate was rejected as empty.
C15_RejectedAsEmpty ==
    /\ checked # <<>>
    /\ ser # None
    /\ v_reads = <<>>
    /\ ~v_err
    /\ ret = None

C15_LateSenderRevalidated ==
    (spc = "done" /\ serial_connection = None /\ C15_RejectedAsEmpty)
        => Occurrences(port_name, checked) >= 2

\* C16: discovery terminates and never raises: whatever the candidate list
\* and the outcomes of the validator (open failure, empty, garbage, error,
\* acceptance), every step of find_correct_port and of the validator
\* decreases a natural number that is 0 exactly when find_correct_port has
\* returned, so it returns after a bounded number of steps; what it
\* returns is 'not found' or a connection that is open and was validated;
\* and no candidate is handed to the validator more than once.
C16_StepsPerCheck == attempts + 6

C16_Remaining == Len(final_list) - idx + 1

C16_Variant ==
    CASE spc = "start" -> (MaxSys + MAX_COM_PORT_CHECK + 2) * C16_StepsPerCheck
      [] spc = "done" -> 0
      [] spc = "loop" -> C16_Remaining * C16_StepsPerCheck + 1
      [] spc = "incheck" ->
           (C16_Remaining - 1) * C16_StepsPerCheck
             + (CASE vpc = "open" -> attempts + 6
                  [] vpc = "settle" -> attempts + 5
                  [] vpc = "read" -> attempts + 4 - attempt
                  [] vpc = "returned" -> 2)

C16_Returned ==
    spc = "done"
        => \/ serial_connection = None
           \/ /\ serial_connection \in openHandles
              /\ serial_connection = port_name
              /\ valid_floats >= 2

C16_OncePerCandidate ==
    /\ Len(checked) <= Len(final_list)
    /\ \A i \in 1..Len(checked) : Occurrences(checked[i], checked) = 1

C16_State ==
    /\ C16_Variant >= 0
    /\ C16_Variant = 0 <=> spc = "done"
    /\ C16_Returned
    /\ C16_OncePerCandidate

C16_DiscoveryTerminates ==
    /\ []C16_State
    /\ [][C16_Variant' < C16_Variant]_vars

C16_Witness ==
    /\ spc = "done"
    /\ serial_connection = None
    /\ Len(checked) >= MAX_COM_PORT_CHECK
    /\ v_err

\* C17: a line with malformed bytes is treated by the read loop of
\* update_graph as it is by the validator: when the loop reads a line that
\* the validator counts as numeric (after dropping the malformed bytes and
\* stripping), the value is appended to the history and the loop goes on
\* with the lines behind it, unless the log write fails.
C17_ValidatorCounts(raw) ==
    /\ Strip(DecodeIgnore(raw)) # <<>>
    /\ IsFloat(Strip(DecodeIgnore(raw)))

C17_Step ==
    (upc = "loop" /\ inbuf # <<>> /\ inbuf' = Tail(inbuf)
        /\ C17_ValidatorCounts(Head(inbuf)))
        => /\ full_history_y' =
                  Append(full_history_y,
                         FloatVal(Strip(DecodeIgnore(Head(inbuf)))))
           /\ upc' = "loop" \/ tick_err' = "log"

C17_MalformedTolerated == [][C17_Step]_vars

\* C18: a tick that renders a window of n values draws the values
\* themselves at the indices 0..n-1 when n <= 3 or smoothing is off or the
\* fit raised, and otherwise 300 points over the index domain [0, n-1];
\* whatever the fit does, the step ends the tick normally.
C18_IsRaw(l, view_y) ==
    /\ l.kind = "raw"
    /\ l.npoints = Len(view_y)
    /\ l.src = view_y
    /\ l.xlo = 0
    /\ l.xhi = Len(view_y) - 1

C18_IsSmooth(l, view_y) ==
    /\ l.kind = "smooth"
    /\ l.npoints = 300
    /\ l.xlo = 0
    /\ l.xhi = Len(view_y) - 1

C18_Render ==
    (upc = "view" /\ upc' # upc /\ full_history_y # <<>>)
        => LET n      == Min(current_window_width, Len(full_history_y))
               view_y == LastN(full_history_y, n)
           IN  /\ upc' = "idle"
               /\ IF n <= 3 \/ ~is_smooth_enabled
                  THEN C18_IsRaw(line_data', view_y)
                  ELSE \/ C18_IsSmooth(line_data', view_y)
                       \/ C18_IsRaw(line_data', view_y)

C18_SmoothingSelection == [][C18_Render]_vars

C18_Witness ==
    /\ upc = "idle"
    /\ is_smooth_enabled
    /\ Len(full_history_y) = 4
    /\ line_data.kind = "smooth"
    /\ line_data.npoints = 300
    /\ line_data.xhi = 3

\* C19: ingestion loses and reorders nothing: in every state the history
\* holds, in arrival order and once each, the values of exactly those
\* lines consumed so far that are numeric (well-formed text that float()
\* accepts), and the buffer holds the lines that arrived and were not yet
\* consumed, also with garbage, empty and malformed lines in between; a
\* tick that found lines buffered and met no read error has consumed at
\* least one of them; and while ticks keep running and read errors do not
\* recur for ever, a buffer that holds lines is eventually empty, every
\* line in it consumed.
C19_Consumed == SubSeq(Stream, 1, sent - Len(inbuf))

C19_NothingLost ==
    /\ Len(inbuf) <= sent
    /\ inbuf = SubSeq(Stream, sent - Len(inbuf) + 1, sent)
    /\ full_history_y = SampleVals(C19_Consumed)
    /\ Len(full_history_x) = Len(full_history_y)

C19_TickProgress ==
    (upc \in {"flush", "view"} /\ tick_buf0 # <<>> /\ tick_err # "io")
        => (tick_read # <<>> /\ Head(tick_read) = Head(tick_buf0))

C19_Drained == (mpc = "run" /\ inbuf # <<>>) ~> (inbuf = <<>>)

C19_NoSampleLost ==
    /\ [](C19_NothingLost /\ C19_TickProgress)
    /\ C19_Drained

C19_Witness ==
    /\ sent = Len(Stream)
    /\ inbuf = <<>>
    /\ upc = "idle"
    /\ full_history_y = <<2340, 2355, 2340>>

====
